---- MODULE Spec2Model ----
(***************************************************************************)
(* The diabetes risk forms of EzeKeys/diabetes-predictor as a state        *)
(* machine.  Two scripts are modelled: app.py (cached loader, per-feature  *)
(* widget bounds, probability metric) and "app (2).py" (model loaded by    *)
(* every run, six hard-coded features, no validation).  A Streamlit script *)
(* is executed top to bottom once per interaction; one action of the model *)
(* is one such run, everything it calls included.                          *)
(*                                                                         *)
(* Numbers are integers: a widget value is the number the operator         *)
(* committed, a probability is in thousandths (0..1000), so that           *)
(* probability * 100 is a percentage with one decimal.                     *)
(***************************************************************************)
EXTENDS Integers, Sequences, FiniteSets, TLC

\* ------------------------------------------------------------- bounds

\* Longest feature list a model_features.pkl of the model holds.
MaxFeatures == 2

\* Executions of joblib.load("diabetes_model.pkl") explored in one process.
MaxLoads == 3

\* --------------------------------------------------------------- state

VARIABLES
    script,        \* which script the process runs: "app" or "app2"
    modelFile,     \* diabetes_model.pkl on disk
    featuresFile,  \* model_features.pkl on disk
    classifier,    \* the object pickled in diabetes_model.pkl
    featureSpec,   \* the list pickled in model_features.pkl
    cache,         \* st.cache_resource's entry for load_model_data
    loadCalls,     \* executions of joblib.load("diabetes_model.pkl")
    widgets,       \* the session's number_input values, by position
    model,         \* the script's global after the last run
    features,      \* the script's global after the last run
    inputs,        \* the list the last run collected
    button,        \* what st.button returned in the last run
    input_array,   \* the array the last run passed to predict
    prediction,    \* predict's output for the row in the last run
    predictCalls,  \* calls of model.predict in the last run
    probaCalls,    \* calls of model.predict_proba in the last run
    page,          \* what the last run rendered
    ref            \* history: one earlier classification, input and verdict

\* ------------------------------------------------- optional values

None == <<>>

Some(x) == <<x>>

\* ---------------------------------------------------- the environment

\* What is on disk under an artifact's file name.
FileStates == {"ok", "missing", "corrupt"}

\* Feature names a model_features.pkl may list: two with educational
\* content, one of them the age field in another casing, and one dropped
\* feature with no educational content.
FeatureNames == {"Pregnancies", "Glucose", "AGE", "SkinThickness"}

\* Numbers the operator types into a field: below every minimum, the
\* minimum, the age maximum and one above it.
RawValues == {-1, 0, 120, 121}

\* How the pickled classifier answers predict_proba.
ProbaKinds == {"absent", "raises", "ok"}

\* The pickled classifiers: the row's sum against a cut decides the output;
\* hi = 2 is a classifier whose output is neither 0 nor 1.
Classifiers == [cut : {100}, hi : {1, 2}, proba : ProbaKinds]

\* The lists a model_features.pkl may hold: duplicate-free (a repeated name
\* makes two identical widgets, which Streamlit refuses to render).
FeatureSpecs ==
    {s \in UNION {[1..k -> FeatureNames] : k \in 1..MaxFeatures} :
        \A i, j \in DOMAIN s : i # j => s[i] # s[j]}

RECURSIVE Sum(_)
Sum(s) == IF s = <<>> THEN 0 ELSE Head(s) + Sum(Tail(s))

\* model.predict(input_array): one output per row.
ModelPredict(clf, X) ==
    [r \in DOMAIN X |->
        IF Sum(X[r]) >= clf.cut THEN clf.hi ELSE 0]

\* model.predict_proba(input_array): per row [p_negative, p_positive].
ModelPredictProba(clf, X) ==
    [r \in DOMAIN X |->
        IF Sum(X[r]) >= clf.cut THEN <<125, 875>> ELSE <<875, 125>>]

\* -------------------------------------------------------------- app.py

FEATURE_EDUCATION ==
    {"pregnancies", "glucose", "bloodpressure", "insulin", "bmi", "age"}

\* The hard-coded feature list of "app (2).py".
Features2 ==
    <<"Pregnancies", "Glucose", "BloodPressure", "Insulin", "BMI", "Age">>

\* str.lower() on the names of the model.
Lower(feature) ==
    CASE feature = "Pregnancies"   -> "pregnancies"
      [] feature = "Glucose"       -> "glucose"
      [] feature = "BloodPressure" -> "bloodpressure"
      [] feature = "Insulin"       -> "insulin"
      [] feature = "BMI"           -> "bmi"
      [] feature = "Age"           -> "age"
      [] feature = "AGE"           -> "age"
      [] feature = "SkinThickness" -> "skinthickness"

\* A plausible slip: the name is compared as it is, without lower().
FeatureKeyNoLower(feature) == feature

\* feature_lower = feature.lower()
FeatureKey(feature) == Lower(feature)

\* The st.number_input arguments the script passes for a feature:
\* min_value, max_value (when given) and the default value.
NumberInputArgs(feature) ==
    IF script = "app2"
    THEN [min |-> 0, hasMax |-> FALSE, max |-> 0, value |-> 0]
    ELSE LET feature_lower == FeatureKey(feature)
         IN  IF feature_lower \in FEATURE_EDUCATION
             THEN IF feature_lower = "age"
                  THEN [min |-> 0, hasMax |-> TRUE, max |-> 120, value |-> 30]
                  ELSE IF feature_lower = "pregnancies"
                  THEN [min |-> 0, hasMax |-> TRUE, max |-> 20, value |-> 0]
                  ELSE [min |-> 0, hasMax |-> FALSE, max |-> 0, value |-> 0]
             ELSE [min |-> 0, hasMax |-> FALSE, max |-> 0, value |-> 0]

\* A number_input that commits whatever is typed.
NumberInputUnchecked(args, old, raw) == raw

\* The value a number_input holds after the operator types raw: a number
\* outside [min_value, max_value] is not committed.
NumberInputCommit(args, old, raw) ==
    IF raw < args.min \/ (args.hasMax /\ raw > args.max) THEN old ELSE raw

\* The value st.number_input returns for the i-th feature in a run: the
\* session's value, the default on the first render.
NumberInput(feature, w, i) ==
    IF i \in DOMAIN w THEN w[i] ELSE NumberInputArgs(feature).value

\* A loop body whose fallback branch forgets inputs.append(value).
LoopBodyNoFallbackAppend(feature, w, i, acc) ==
    IF script = "app" /\ FeatureKey(feature) \notin FEATURE_EDUCATION
    THEN acc
    ELSE Append(acc, NumberInput(feature, w, i))

\* One iteration of "for feature in features": both branches of app.py, and
\* the single body of "app (2).py", end in inputs.append(value).
LoopBody(feature, w, i, acc) ==
    IF script = "app" /\ FeatureKey(feature) \in FEATURE_EDUCATION
    THEN Append(acc, NumberInput(feature, w, i))
    ELSE Append(acc, NumberInput(feature, w, i))

RECURSIVE CollectInputsSkipLast(_, _, _, _)
\* A loop that stops one feature short.
CollectInputsSkipLast(feats, w, i, acc) ==
    IF i >= Len(feats) THEN acc
    ELSE CollectInputsSkipLast(feats, w, i + 1,
                               LoopBody(feats[i], w, i, acc))

RECURSIVE CollectInputs(_, _, _, _)
\* inputs = []; for feature in features: ...
CollectInputs(feats, w, i, acc) ==
    IF i > Len(feats) THEN acc
    ELSE CollectInputs(feats, w, i + 1,
                       LoopBody(feats[i], w, i, acc))

\* The session's widget values once the loop has rendered every field.
SessionWidgets(feats, w) ==
    [i \in 1..Len(feats) |-> NumberInput(feats[i], w, i)]

\* all(x >= 0 for x in inputs)
AllNonNegative(acc) == \A i \in DOMAIN acc : acc[i] >= 0

\* A mapping that takes every positive output for high risk.
RiskLabelAnyPositive(p) ==
    IF p >= 1 THEN "positive" ELSE "negative"

\* if prediction == 1: high risk, else: low risk.
RiskLabel(p) == IF p = 1 THEN "positive" ELSE "negative"

\* A probability step that reads the negative-class entry.
RiskMetricNegativeClass(clf, X) ==
    IF clf.proba = "ok"
    THEN Some(ModelPredictProba(clf, X)[1][1])
    ELSE None

\* A probability step that shows the metric only when the run before did
\* not.
RiskMetricOnce(clf, X) ==
    IF clf.proba = "ok" /\ probaCalls = 0
    THEN Some(ModelPredictProba(clf, X)[1][2])
    ELSE None

\* try: predict_proba(input_array)[0][1] * 100 as the metric; except: pass.
\* The metric is kept in tenths of a percent.
RiskMetric(clf, X) ==
    IF clf.proba = "ok"
    THEN Some(ModelPredictProba(clf, X)[1][2])
    ELSE None

\* ------------------------------------------------------------ loading

\* joblib.load(path) on a file in the given state.
JoblibLoad(file) ==
    CASE file = "ok"      -> "loaded"
      [] file = "missing" -> "FileNotFoundError"
      [] file = "corrupt" -> "UnpicklingError"

\* The body of load_model_data: the model is loaded first, then the
\* features; only FileNotFoundError is caught (st.error, return None, None).
LoadBody(mf, ff, clf, fs) ==
    LET m == JoblibLoad(mf)
        f == JoblibLoad(ff)
        first == IF m = "loaded" THEN f ELSE m
    IN  IF first = "loaded"
        THEN [raised |-> FALSE, error |-> "none",
              model |-> Some(clf), features |-> Some(fs)]
        ELSE IF first = "FileNotFoundError"
        THEN [raised |-> FALSE, error |-> "ModelFilesNotFound",
              model |-> None, features |-> None]
        ELSE [raised |-> TRUE, error |-> "Exception",
              model |-> None, features |-> None]

\* @st.cache_resource on load_model_data: a stored return value is handed
\* back (its st.error replayed) without running the body; a call that
\* raises stores nothing.
LoadModelData(c, mf, ff, clf, fs) ==
    IF c # None
    THEN [executed |-> FALSE, result |-> c[1], cache |-> c]
    ELSE LET r == LoadBody(mf, ff, clf, fs)
         IN  [executed |-> TRUE, result |-> r,
              cache |-> IF r.raised THEN None ELSE Some(r)]

\* "app (2).py": model = joblib.load("diabetes_model.pkl") at module level,
\* nothing caught, and the feature list is a literal.
LoadModel2(c, mf, clf) ==
    LET m == JoblibLoad(mf)
    IN  [executed |-> TRUE,
         result |-> IF m = "loaded"
                    THEN [raised |-> FALSE, error |-> "none",
                          model |-> Some(clf), features |-> Some(Features2)]
                    ELSE [raised |-> TRUE, error |-> "Exception",
                          model |-> None, features |-> None],
         cache |-> c]

\* ------------------------------------------------- the predict handler

\* What a run renders and calls when the button was not pressed.
NoPrediction ==
    [input_array |-> None, prediction |-> None, predictCalls |-> 0,
     probaCalls |-> 0, error |-> "none", label |-> "none", metric |-> None]

\* The body of "if st.button(...)": app.py checks all(x >= 0), predicts,
\* renders the label and then tries the probability; "app (2).py" predicts
\* and renders the label.
PredictHandler(clf, acc) ==
    IF script = "app" /\ ~AllNonNegative(acc)
    THEN [NoPrediction EXCEPT !.error = "InvalidValues"]
    ELSE LET X == <<acc>>
             pred == ModelPredict(clf, X)[1]
         IN  [input_array |-> Some(X),
              prediction |-> Some(pred),
              predictCalls |-> 1,
              probaCalls |-> IF script = "app" /\ clf.proba # "absent"
                             THEN 1 ELSE 0,
              error |-> "none",
              label |-> RiskLabel(pred),
              metric |-> IF script = "app"
                         THEN RiskMetric(clf, X) ELSE None]

\* ----------------------------------------------------------- the runs

vars ==
    <<script, modelFile, featuresFile, classifier, featureSpec, cache,
      loadCalls, widgets, model, features, inputs, button, input_array,
      prediction, predictCalls, probaCalls, page, ref>>

env == <<script, modelFile, featuresFile, classifier, featureSpec>>

BlankPage ==
    [ran |-> FALSE, error |-> "none", form |-> FALSE,
     label |-> "none", metric |-> None]

\* The process has started and no browser has connected yet.
Init ==
    /\ script \in {"app", "app2"}
    /\ modelFile \in FileStates
    /\ featuresFile \in (IF script = "app" THEN FileStates ELSE {"ok"})
    /\ classifier \in Classifiers
    /\ featureSpec \in (IF script = "app" THEN FeatureSpecs ELSE {Features2})
    /\ cache = None
    /\ loadCalls = 0
    /\ widgets = <<>>
    /\ model = None
    /\ features = None
    /\ inputs = <<>>
    /\ button = FALSE
    /\ input_array = None
    /\ prediction = None
    /\ predictCalls = 0
    /\ probaCalls = 0
    /\ page = BlankPage
    /\ ref = None

\* model, features = load_model_data() in app.py; the module-level load of
\* "app (2).py".
LoadStep ==
    IF script = "app"
    THEN LoadModelData(cache, modelFile, featuresFile, classifier, featureSpec)
    ELSE LoadModel2(cache, modelFile, classifier)

\* The exception ends the run, or "if model is None or features is None:
\* st.stop()" does.
Stopped(res) == res.raised \/ res.model = None \/ res.features = None

\* A run that ended before the form: the page holds the error alone and no
\* widget is rendered.
RunStopped(load) ==
    [cache |-> load.cache,
     loadCalls |-> IF load.executed THEN loadCalls + 1 ELSE loadCalls,
     model |-> load.result.model,
     features |-> load.result.features,
     widgets |-> <<>>,
     inputs |-> <<>>,
     button |-> FALSE,
     input_array |-> None,
     prediction |-> None,
     predictCalls |-> 0,
     probaCalls |-> 0,
     page |-> [ran |-> TRUE, error |-> load.result.error, form |-> FALSE,
               label |-> "none", metric |-> None]]

\* A run that reached the end of the script: collected is the loop's list,
\* h what the button's block did.
RunEnd(load, w, pressed, collected, h) ==
    [cache |-> load.cache,
     loadCalls |-> IF load.executed THEN loadCalls + 1 ELSE loadCalls,
     model |-> load.result.model,
     features |-> load.result.features,
     widgets |-> SessionWidgets(load.result.features[1], w),
     inputs |-> collected,
     button |-> pressed,
     input_array |-> h.input_array,
     prediction |-> h.prediction,
     predictCalls |-> h.predictCalls,
     probaCalls |-> h.probaCalls,
     page |-> [ran |-> TRUE, error |-> h.error, form |-> TRUE,
               label |-> h.label, metric |-> h.metric]]

\* The script from the input loop on: "if st.button(...)" runs the handler
\* on the collected list.
RunForm(load, w, pressed, collected) ==
    RunEnd(load, w, pressed, collected,
           IF pressed
           THEN PredictHandler(load.result.model[1], collected)
           ELSE NoPrediction)

\* The script after the load.
RunLoaded(load, w, pressed) ==
    IF Stopped(load.result)
    THEN RunStopped(load)
    ELSE RunForm(load, w, pressed,
                 CollectInputs(load.result.features[1], w, 1, <<>>))

\* One execution of the script, top to bottom, with the session's widget
\* values w and the button pressed or not.
RunScript(w, pressed) == RunLoaded(LoadStep, w, pressed)

\* The state a run leaves behind.  ref may keep the run's classification.
Ran(r) ==
    /\ cache' = r.cache
    /\ loadCalls' = r.loadCalls
    /\ model' = r.model
    /\ features' = r.features
    /\ widgets' = r.widgets
    /\ inputs' = r.inputs
    /\ button' = r.button
    /\ input_array' = r.input_array
    /\ prediction' = r.prediction
    /\ predictCalls' = r.predictCalls
    /\ probaCalls' = r.probaCalls
    /\ page' = r.page
    /\ ref' \in {ref} \cup
                IF ref = None /\ r.page.label # "none"
                THEN {Some([widgets |-> r.widgets, label |-> r.page.label,
                            metric |-> r.page.metric])}
                ELSE {}
    /\ UNCHANGED env

\* A run that would execute joblib.load is explored up to MaxLoads times.
MayRun == (script = "app2" \/ cache = None) => loadCalls < MaxLoads

\* A browser connects or reloads the page: a new session, default values.
NewSession ==
    /\ MayRun
    /\ Ran(RunScript(<<>>, FALSE))

\* The operator reruns the script from the menu: same session.
Rerun ==
    /\ MayRun
    /\ page.ran
    /\ Ran(RunScript(widgets, FALSE))

\* The operator types raw into the i-th field; a committed change reruns
\* the script.
EditField ==
    /\ MayRun
    /\ page.form
    /\ \E i \in DOMAIN widgets, raw \in RawValues :
          LET args == NumberInputArgs(features[1][i])
              new == NumberInputCommit(args, widgets[i], raw)
          IN  /\ new # widgets[i]
              /\ Ran(RunScript([widgets EXCEPT ![i] = new], FALSE))

\* The operator presses the predict button.
ClickPredict ==
    /\ MayRun
    /\ page.form
    /\ Ran(RunScript(widgets, TRUE))

Next == NewSession \/ Rerun \/ EditField \/ ClickPredict

Spec == Init /\ [][Next]_vars

\* -------------------------------------------------------------- claims

\* The row the last run passed to predict.
Row == input_array[1][1]

\* Some artifact the running script loads is missing or malformed.
ArtifactUnavailable ==
    modelFile # "ok" \/ (script = "app" /\ featuresFile # "ok")

\* C1: after a startup with a missing or malformed artifact, every run
\* shows the ModelUnavailable error ("Model files not found"), calls predict
\* never and renders no verdict.
C1_StartupContract ==
    (page.ran /\ ArtifactUnavailable) =>
        /\ page.error = "ModelFilesNotFound"
        /\ predictCalls = 0
        /\ page.label = "none"

\* C2: in app.py every row that reaches the classifier has every value
\* >= 0, its age field (in any casing) in [0,120] and its pregnancies field
\* in [0,20].
C2_RangesAtClassifier ==
    (script = "app" /\ predictCalls > 0) =>
        \A i \in DOMAIN features[1] :
            /\ i \in DOMAIN Row
            /\ Row[i] >= 0
            /\ Lower(features[1][i]) = "age" => Row[i] <= 120
            /\ Lower(features[1][i]) = "pregnancies" => Row[i] <= 20

\* A classification of the boundary age 120, beside a pregnancies field,
\* after a classification of the boundary age 0.
C2_Witness ==
    /\ script = "app"
    /\ predictCalls > 0
    /\ ref # None
    /\ \E i, j \in DOMAIN features[1] :
          /\ Lower(features[1][i]) = "age"
          /\ Row[i] = 120
          /\ ref[1].widgets[i] = 0
          /\ Lower(features[1][j]) = "pregnancies"

\* C3: whenever predict is called, its argument is a single row with
\* len(features) values, the i-th being the value the operator entered for
\* the i-th feature.
C3_RowAlignsWithFeatureSpec ==
    predictCalls > 0 =>
        /\ Len(input_array[1]) = 1
        /\ Len(Row) = Len(features[1])
        /\ Len(widgets) = Len(features[1])
        /\ \A i \in DOMAIN Row : Row[i] = widgets[i]

\* A classification of two different values, one of them entered for a
\* feature without educational content, in second place.
C3_Witness ==
    /\ predictCalls > 0
    /\ Len(features[1]) = 2
    /\ Lower(features[1][2]) \notin FEATURE_EDUCATION
    /\ Row[1] = 120
    /\ Row[2] = 121

\* C4: a run renders a label exactly when it called predict, and then the
\* label is positive exactly when predict's output for the row is 1, and
\* negative otherwise.
C4_LabelMapping ==
    /\ page.label # "none" <=> predictCalls > 0
    /\ predictCalls > 0 =>
          /\ page.label \in {"positive", "negative"}
          /\ page.label = "positive" <=> prediction[1] = 1

\* An output that is neither 0 nor 1 was rendered as negative.
C4_Witness ==
    /\ prediction = Some(2)
    /\ page.label = "negative"

\* C5: in app.py a classification whose classifier has no predict_proba,
\* or whose predict_proba raises, still renders its label, with no
\* probability and no error; when predict_proba answers, the probability
\* shown is the positive-class entry.
C5_ProbabilityOptional ==
    (script = "app" /\ predictCalls > 0) =>
        /\ page.label \in {"positive", "negative"}
        /\ page.error = "none"
        /\ classifier.proba \in {"absent", "raises"} => page.metric = None
        /\ classifier.proba = "ok" =>
              page.metric = Some(ModelPredictProba(classifier, input_array[1])[1][2])

\* predict_proba was called and raised, and the label is on the page.
C5_Witness ==
    /\ script = "app"
    /\ classifier.proba = "raises"
    /\ probaCalls = 1
    /\ page.label = "positive"
    /\ page.metric = None

\* C6: no classification is performed unless the collected input has an
\* entry for every member of the feature list.
C6_EveryFeatureHasValue ==
    predictCalls > 0 =>
        \A i \in 1..Len(features[1]) : i \in DOMAIN inputs

\* A classification of the six hard-coded features.
C6_Witness ==
    /\ predictCalls > 0
    /\ features = Some(Features2)
    /\ Len(inputs) = 6

\* The handler's rejection ("Please enter valid values for all fields.")
\* is never rendered: C7 speaks of a run no operator can cause.
RejectionNeverShown == page.error # "InvalidValues"

\* C8: two classifications of the same input by the same process render
\* the same verdict, label and probability, whatever happened in between.
C8_Deterministic ==
    (ref # None /\ page.label # "none" /\ widgets = ref[1].widgets) =>
        /\ page.label = ref[1].label
        /\ page.metric = ref[1].metric

\* A classification by app.py of an input that holds a typed value and was
\* classified before, that time with a probability.
C8_Witness ==
    /\ ref # None
    /\ ref[1].metric # None
    /\ page.label # "none"
    /\ widgets = ref[1].widgets
    /\ loadCalls = 1
    /\ \E i \in DOMAIN widgets : widgets[i] = 120

\* C9: app.py executes its loader once in the life of the process.
C9_LoadedOnce == script = "app" => loadCalls <= 1

\* C10: predict is called at most once per run, only in a run the button
\* started and only on values that are all >= 0; a run that rejects its
\* values, and a run without the button, call neither predict nor
\* predict_proba and render no verdict.
C10_PredictOnlyOnTrigger ==
    /\ predictCalls <= 1
    /\ predictCalls > 0 => button /\ AllNonNegative(Row)
    /\ (~button \/ page.error = "InvalidValues") =>
          /\ predictCalls = 0
          /\ probaCalls = 0
          /\ page.label = "none"
          /\ page.metric = None
    /\ (button /\ ~AllNonNegative(inputs)) => page.error = "InvalidValues"

\* The button started a run that called predict and predict_proba once.
C10_Witness ==
    /\ button
    /\ predictCalls = 1
    /\ probaCalls = 1
    /\ page.error = "none"

====
